---- MODULE Spec2Model ----
(***************************************************************************)
(* A first-person raycaster with a small combat simulation (src/main.cpp). *)
(*                                                                         *)
(* The program computes in 32-bit floats.  The model computes in fixed     *)
(* point: positions in 1/PosScale of a grid cell, direction and camera     *)
(* plane vectors in 1/VecScale, the sine and cosine tables in 1/TrigScale  *)
(* and ray distances in 1/DistScale of a cell.  Every float constant of    *)
(* the program is an exact multiple of the unit it is expressed in.        *)
(***************************************************************************)
EXTENDS Integers, Sequences, FiniteSets, TLC

VARIABLES
    gen,            \* Game::Game: the interior walls placed and the loop iterations done
    player,         \* Game::player: position, direction, plane, health
    enemies,        \* Game::enemies, in collection order
    gameOver,       \* Game::gameOver
    mouseCaptured,  \* Game::mouseCaptured
    frameCount,     \* the static frameCount of Game::update
    oobRead,        \* history: some collision test indexed worldMap outside its bounds
    shotFired,      \* history: the last update() that ran called shootWeapon
    rpc,            \* position inside Game::render
    rayX,           \* renderScene: the view column x of the ray loop
    ray,            \* renderScene: the locals of the current ray and its DDA walk
    zBuffer,        \* Game::zBuffer, one depth per screen column
    renderBuffer    \* Game::renderBuffer, restricted to the probed screen columns

vars == << gen, player, enemies, gameOver, mouseCaptured, frameCount, oobRead,
           shotFired, rpc, rayX, ray, zBuffer, renderBuffer >>

simVars == << gen, player, enemies, gameOver, mouseCaptured, frameCount, oobRead,
              shotFired >>

renderVars == << rpc, rayX, ray, zBuffer, renderBuffer >>

(***************************************************************************)
(* Program constants                                                       *)
(***************************************************************************)
SCREEN_WIDTH == 800
SCREEN_HEIGHT == 600
MAP_WIDTH == 24
MAP_HEIGHT == 24
CELL_SIZE == 64
RAY_WIDTH == SCREEN_WIDTH \div 4
ANGLE_TABLE_SIZE == 1024

\* Fixed-point units of the float quantities.
PosScale == 100
VecScale == 1000
TrigScale == 10000
DistScale == 1000

\* Player(): moveSpeed(0.1f), health(100), hasWeapon(true)
MoveSpeed == 10
PlayerHealth == 100
HasWeapon == TRUE
\* Enemy(): speed(0.03f), health(50)
EnemySpeed == 3
EnemyHealth == 50
\* movePlayer: wallBuffer = 0.1f
\* mutant of WallBuffer: the buffer is three cells wide
WideWallBuffer == 3 * PosScale
WallBuffer == 10
\* Enemy::update and Game::update: 0.5f
ContactRadius == 50
ContactDamage == 1
\* shootWeapon: angle < 0.26f is dot > cos(0.26) = 0.96639, enemyDist < 8.0f, 10 damage
CosArc == 966390
WeaponRange == 800
WeaponDamage == 10

(***************************************************************************)
(* Bounds of the model                                                     *)
(***************************************************************************)
\* update() calls that are not skipped by game over, per run
MaxFrames == 3

(***************************************************************************)
(* Arithmetic                                                              *)
(***************************************************************************)
Abs(n) == IF n < 0 THEN -n ELSE n

\* int(f) of a float: truncation toward zero
TruncDiv(n, d) == IF n >= 0 THEN n \div d ELSE -((-n) \div d)

\* a float quotient n / d, d > 0, rounded to the nearest unit
RoundDiv(n, d) == IF n >= 0 THEN (2 * n + d) \div (2 * d) ELSE -((2 * (-n) + d) \div (2 * d))

\* a float quotient n / d, d # 0, rounded to the nearest unit
Quot(n, d) == IF d > 0 THEN RoundDiv(n, d) ELSE RoundDiv(-n, -d)

\* the C remainder a % n, with the sign of a
CRem(a, n) == IF a >= 0 THEN a % n ELSE -((-a) % n)

RECURSIVE SqrtIter(_, _)
SqrtIter(n, r) ==
    LET r2 == (r + n \div r) \div 2
    IN  IF r2 >= r THEN r ELSE SqrtIter(n, r2)

\* sqrt, rounded down to the unit
ISqrt(n) == IF n < 2 THEN n ELSE SqrtIter(n, n)

\* x * x + y * y; length() compared with a threshold r is decided on the squares,
\* which is exact
LengthSq(x, y) == x * x + y * y

\* Vec2::length of a vector in 1/PosScale, the result in 1/(10 * PosScale)
Length(x, y) == ISqrt(100 * LengthSq(x, y))

\* Vec2::normalize of a vector in 1/PosScale, the result in 1/VecScale
Normalize(x, y) ==
    LET len == Length(x, y)
    IN  IF len > 0
        THEN << RoundDiv(x * VecScale * 10, len), RoundDiv(y * VecScale * 10, len) >>
        ELSE << 0, 0 >>

\* the grid cell int(v) of a coordinate
CellOf(v) == TruncDiv(v, PosScale)

InGrid(ix, iy) == ix >= 0 /\ iy >= 0 /\ ix < MAP_WIDTH /\ iy < MAP_HEIGHT

\* what a read outside the bounds of worldMap can return, as a cell value: empty
\* or wall
Junk == { 0, 1 }

\* worldMap[ix][iy] as a collision test reads it; an index outside the array reads
\* whatever lies there, junk
MapRead(map, ix, iy, junk) == IF InGrid(ix, iy) THEN map[ix][iy] ELSE junk

(***************************************************************************)
(* Trigonometric tables: initTrigTables, sin and cos of 2*pi*i/1024        *)
(***************************************************************************)
sinTable ==
  <<
    0, 61, 123, 184, 245, 307, 368, 429, 491, 552, 613, 674, 736, 797, 858, 919,
    980, 1041, 1102, 1163, 1224, 1285, 1346, 1407, 1467, 1528, 1589, 1649, 1710, 1770, 1830, 1891,
    1951, 2011, 2071, 2131, 2191, 2251, 2311, 2370, 2430, 2489, 2549, 2608, 2667, 2726, 2785, 2844,
    2903, 2962, 3020, 3078, 3137, 3195, 3253, 3311, 3369, 3427, 3484, 3542, 3599, 3656, 3713, 3770,
    3827, 3883, 3940, 3996, 4052, 4108, 4164, 4220, 4276, 4331, 4386, 4441, 4496, 4551, 4605, 4660,
    4714, 4768, 4822, 4876, 4929, 4982, 5035, 5088, 5141, 5194, 5246, 5298, 5350, 5402, 5453, 5505,
    5556, 5607, 5657, 5708, 5758, 5808, 5858, 5908, 5957, 6006, 6055, 6104, 6152, 6201, 6249, 6296,
    6344, 6391, 6438, 6485, 6532, 6578, 6624, 6670, 6716, 6761, 6806, 6851, 6895, 6940, 6984, 7028,
    7071, 7114, 7157, 7200, 7242, 7285, 7327, 7368, 7410, 7451, 7491, 7532, 7572, 7612, 7652, 7691,
    7730, 7769, 7807, 7846, 7883, 7921, 7958, 7995, 8032, 8068, 8105, 8140, 8176, 8211, 8246, 8280,
    8315, 8349, 8382, 8416, 8449, 8481, 8514, 8546, 8577, 8609, 8640, 8670, 8701, 8731, 8761, 8790,
    8819, 8848, 8876, 8904, 8932, 8960, 8987, 9013, 9040, 9066, 9092, 9117, 9142, 9167, 9191, 9215,
    9239, 9262, 9285, 9308, 9330, 9352, 9373, 9395, 9415, 9436, 9456, 9476, 9495, 9514, 9533, 9551,
    9569, 9587, 9604, 9621, 9638, 9654, 9670, 9685, 9700, 9715, 9729, 9743, 9757, 9770, 9783, 9796,
    9808, 9820, 9831, 9842, 9853, 9863, 9873, 9883, 9892, 9901, 9909, 9917, 9925, 9932, 9939, 9946,
    9952, 9958, 9963, 9968, 9973, 9977, 9981, 9985, 9988, 9991, 9993, 9995, 9997, 9998, 9999, 10000,
    10000, 10000, 9999, 9998, 9997, 9995, 9993, 9991, 9988, 9985, 9981, 9977, 9973, 9968, 9963, 9958,
    9952, 9946, 9939, 9932, 9925, 9917, 9909, 9901, 9892, 9883, 9873, 9863, 9853, 9842, 9831, 9820,
    9808, 9796, 9783, 9770, 9757, 9743, 9729, 9715, 9700, 9685, 9670, 9654, 9638, 9621, 9604, 9587,
    9569, 9551, 9533, 9514, 9495, 9476, 9456, 9436, 9415, 9395, 9373, 9352, 9330, 9308, 9285, 9262,
    9239, 9215, 9191, 9167, 9142, 9117, 9092, 9066, 9040, 9013, 8987, 8960, 8932, 8904, 8876, 8848,
    8819, 8790, 8761, 8731, 8701, 8670, 8640, 8609, 8577, 8546, 8514, 8481, 8449, 8416, 8382, 8349,
    8315, 8280, 8246, 8211, 8176, 8140, 8105, 8068, 8032, 7995, 7958, 7921, 7883, 7846, 7807, 7769,
    7730, 7691, 7652, 7612, 7572, 7532, 7491, 7451, 7410, 7368, 7327, 7285, 7242, 7200, 7157, 7114,
    7071, 7028, 6984, 6940, 6895, 6851, 6806, 6761, 6716, 6670, 6624, 6578, 6532, 6485, 6438, 6391,
    6344, 6296, 6249, 6201, 6152, 6104, 6055, 6006, 5957, 5908, 5858, 5808, 5758, 5708, 5657, 5607,
    5556, 5505, 5453, 5402, 5350, 5298, 5246, 5194, 5141, 5088, 5035, 4982, 4929, 4876, 4822, 4768,
    4714, 4660, 4605, 4551, 4496, 4441, 4386, 4331, 4276, 4220, 4164, 4108, 4052, 3996, 3940, 3883,
    3827, 3770, 3713, 3656, 3599, 3542, 3484, 3427, 3369, 3311, 3253, 3195, 3137, 3078, 3020, 2962,
    2903, 2844, 2785, 2726, 2667, 2608, 2549, 2489, 2430, 2370, 2311, 2251, 2191, 2131, 2071, 2011,
    1951, 1891, 1830, 1770, 1710, 1649, 1589, 1528, 1467, 1407, 1346, 1285, 1224, 1163, 1102, 1041,
    980, 919, 858, 797, 736, 674, 613, 552, 491, 429, 368, 307, 245, 184, 123, 61,
    0, -61, -123, -184, -245, -307, -368, -429, -491, -552, -613, -674, -736, -797, -858, -919,
    -980, -1041, -1102, -1163, -1224, -1285, -1346, -1407, -1467, -1528, -1589, -1649, -1710, -1770, -1830, -1891,
    -1951, -2011, -2071, -2131, -2191, -2251, -2311, -2370, -2430, -2489, -2549, -2608, -2667, -2726, -2785, -2844,
    -2903, -2962, -3020, -3078, -3137, -3195, -3253, -3311, -3369, -3427, -3484, -3542, -3599, -3656, -3713, -3770,
    -3827, -3883, -3940, -3996, -4052, -4108, -4164, -4220, -4276, -4331, -4386, -4441, -4496, -4551, -4605, -4660,
    -4714, -4768, -4822, -4876, -4929, -4982, -5035, -5088, -5141, -5194, -5246, -5298, -5350, -5402, -5453, -5505,
    -5556, -5607, -5657, -5708, -5758, -5808, -5858, -5908, -5957, -6006, -6055, -6104, -6152, -6201, -6249, -6296,
    -6344, -6391, -6438, -6485, -6532, -6578, -6624, -6670, -6716, -6761, -6806, -6851, -6895, -6940, -6984, -7028,
    -7071, -7114, -7157, -7200, -7242, -7285, -7327, -7368, -7410, -7451, -7491, -7532, -7572, -7612, -7652, -7691,
    -7730, -7769, -7807, -7846, -7883, -7921, -7958, -7995, -8032, -8068, -8105, -8140, -8176, -8211, -8246, -8280,
    -8315, -8349, -8382, -8416, -8449, -8481, -8514, -8546, -8577, -8609, -8640, -8670, -8701, -8731, -8761, -8790,
    -8819, -8848, -8876, -8904, -8932, -8960, -8987, -9013, -9040, -9066, -9092, -9117, -9142, -9167, -9191, -9215,
    -9239, -9262, -9285, -9308, -9330, -9352, -9373, -9395, -9415, -9436, -9456, -9476, -9495, -9514, -9533, -9551,
    -9569, -9587, -9604, -9621, -9638, -9654, -9670, -9685, -9700, -9715, -9729, -9743, -9757, -9770, -9783, -9796,
    -9808, -9820, -9831, -9842, -9853, -9863, -9873, -9883, -9892, -9901, -9909, -9917, -9925, -9932, -9939, -9946,
    -9952, -9958, -9963, -9968, -9973, -9977, -9981, -9985, -9988, -9991, -9993, -9995, -9997, -9998, -9999, -10000,
    -10000, -10000, -9999, -9998, -9997, -9995, -9993, -9991, -9988, -9985, -9981, -9977, -9973, -9968, -9963, -9958,
    -9952, -9946, -9939, -9932, -9925, -9917, -9909, -9901, -9892, -9883, -9873, -9863, -9853, -9842, -9831, -9820,
    -9808, -9796, -9783, -9770, -9757, -9743, -9729, -9715, -9700, -9685, -9670, -9654, -9638, -9621, -9604, -9587,
    -9569, -9551, -9533, -9514, -9495, -9476, -9456, -9436, -9415, -9395, -9373, -9352, -9330, -9308, -9285, -9262,
    -9239, -9215, -9191, -9167, -9142, -9117, -9092, -9066, -9040, -9013, -8987, -8960, -8932, -8904, -8876, -8848,
    -8819, -8790, -8761, -8731, -8701, -8670, -8640, -8609, -8577, -8546, -8514, -8481, -8449, -8416, -8382, -8349,
    -8315, -8280, -8246, -8211, -8176, -8140, -8105, -8068, -8032, -7995, -7958, -7921, -7883, -7846, -7807, -7769,
    -7730, -7691, -7652, -7612, -7572, -7532, -7491, -7451, -7410, -7368, -7327, -7285, -7242, -7200, -7157, -7114,
    -7071, -7028, -6984, -6940, -6895, -6851, -6806, -6761, -6716, -6670, -6624, -6578, -6532, -6485, -6438, -6391,
    -6344, -6296, -6249, -6201, -6152, -6104, -6055, -6006, -5957, -5908, -5858, -5808, -5758, -5708, -5657, -5607,
    -5556, -5505, -5453, -5402, -5350, -5298, -5246, -5194, -5141, -5088, -5035, -4982, -4929, -4876, -4822, -4768,
    -4714, -4660, -4605, -4551, -4496, -4441, -4386, -4331, -4276, -4220, -4164, -4108, -4052, -3996, -3940, -3883,
    -3827, -3770, -3713, -3656, -3599, -3542, -3484, -3427, -3369, -3311, -3253, -3195, -3137, -3078, -3020, -2962,
    -2903, -2844, -2785, -2726, -2667, -2608, -2549, -2489, -2430, -2370, -2311, -2251, -2191, -2131, -2071, -2011,
    -1951, -1891, -1830, -1770, -1710, -1649, -1589, -1528, -1467, -1407, -1346, -1285, -1224, -1163, -1102, -1041,
    -980, -919, -858, -797, -736, -674, -613, -552, -491, -429, -368, -307, -245, -184, -123, -61 >>

cosTable ==
  <<
    10000, 10000, 9999, 9998, 9997, 9995, 9993, 9991, 9988, 9985, 9981, 9977, 9973, 9968, 9963, 9958,
    9952, 9946, 9939, 9932, 9925, 9917, 9909, 9901, 9892, 9883, 9873, 9863, 9853, 9842, 9831, 9820,
    9808, 9796, 9783, 9770, 9757, 9743, 9729, 9715, 9700, 9685, 9670, 9654, 9638, 9621, 9604, 9587,
    9569, 9551, 9533, 9514, 9495, 9476, 9456, 9436, 9415, 9395, 9373, 9352, 9330, 9308, 9285, 9262,
    9239, 9215, 9191, 9167, 9142, 9117, 9092, 9066, 9040, 9013, 8987, 8960, 8932, 8904, 8876, 8848,
    8819, 8790, 8761, 8731, 8701, 8670, 8640, 8609, 8577, 8546, 8514, 8481, 8449, 8416, 8382, 8349,
    8315, 8280, 8246, 8211, 8176, 8140, 8105, 8068, 8032, 7995, 7958, 7921, 7883, 7846, 7807, 7769,
    7730, 7691, 7652, 7612, 7572, 7532, 7491, 7451, 7410, 7368, 7327, 7285, 7242, 7200, 7157, 7114,
    7071, 7028, 6984, 6940, 6895, 6851, 6806, 6761, 6716, 6670, 6624, 6578, 6532, 6485, 6438, 6391,
    6344, 6296, 6249, 6201, 6152, 6104, 6055, 6006, 5957, 5908, 5858, 5808, 5758, 5708, 5657, 5607,
    5556, 5505, 5453, 5402, 5350, 5298, 5246, 5194, 5141, 5088, 5035, 4982, 4929, 4876, 4822, 4768,
    4714, 4660, 4605, 4551, 4496, 4441, 4386, 4331, 4276, 4220, 4164, 4108, 4052, 3996, 3940, 3883,
    3827, 3770, 3713, 3656, 3599, 3542, 3484, 3427, 3369, 3311, 3253, 3195, 3137, 3078, 3020, 2962,
    2903, 2844, 2785, 2726, 2667, 2608, 2549, 2489, 2430, 2370, 2311, 2251, 2191, 2131, 2071, 2011,
    1951, 1891, 1830, 1770, 1710, 1649, 1589, 1528, 1467, 1407, 1346, 1285, 1224, 1163, 1102, 1041,
    980, 919, 858, 797, 736, 674, 613, 552, 491, 429, 368, 307, 245, 184, 123, 61,
    0, -61, -123, -184, -245, -307, -368, -429, -491, -552, -613, -674, -736, -797, -858, -919,
    -980, -1041, -1102, -1163, -1224, -1285, -1346, -1407, -1467, -1528, -1589, -1649, -1710, -1770, -1830, -1891,
    -1951, -2011, -2071, -2131, -2191, -2251, -2311, -2370, -2430, -2489, -2549, -2608, -2667, -2726, -2785, -2844,
    -2903, -2962, -3020, -3078, -3137, -3195, -3253, -3311, -3369, -3427, -3484, -3542, -3599, -3656, -3713, -3770,
    -3827, -3883, -3940, -3996, -4052, -4108, -4164, -4220, -4276, -4331, -4386, -4441, -4496, -4551, -4605, -4660,
    -4714, -4768, -4822, -4876, -4929, -4982, -5035, -5088, -5141, -5194, -5246, -5298, -5350, -5402, -5453, -5505,
    -5556, -5607, -5657, -5708, -5758, -5808, -5858, -5908, -5957, -6006, -6055, -6104, -6152, -6201, -6249, -6296,
    -6344, -6391, -6438, -6485, -6532, -6578, -6624, -6670, -6716, -6761, -6806, -6851, -6895, -6940, -6984, -7028,
    -7071, -7114, -7157, -7200, -7242, -7285, -7327, -7368, -7410, -7451, -7491, -7532, -7572, -7612, -7652, -7691,
    -7730, -7769, -7807, -7846, -7883, -7921, -7958, -7995, -8032, -8068, -8105, -8140, -8176, -8211, -8246, -8280,
    -8315, -8349, -8382, -8416, -8449, -8481, -8514, -8546, -8577, -8609, -8640, -8670, -8701, -8731, -8761, -8790,
    -8819, -8848, -8876, -8904, -8932, -8960, -8987, -9013, -9040, -9066, -9092, -9117, -9142, -9167, -9191, -9215,
    -9239, -9262, -9285, -9308, -9330, -9352, -9373, -9395, -9415, -9436, -9456, -9476, -9495, -9514, -9533, -9551,
    -9569, -9587, -9604, -9621, -9638, -9654, -9670, -9685, -9700, -9715, -9729, -9743, -9757, -9770, -9783, -9796,
    -9808, -9820, -9831, -9842, -9853, -9863, -9873, -9883, -9892, -9901, -9909, -9917, -9925, -9932, -9939, -9946,
    -9952, -9958, -9963, -9968, -9973, -9977, -9981, -9985, -9988, -9991, -9993, -9995, -9997, -9998, -9999, -10000,
    -10000, -10000, -9999, -9998, -9997, -9995, -9993, -9991, -9988, -9985, -9981, -9977, -9973, -9968, -9963, -9958,
    -9952, -9946, -9939, -9932, -9925, -9917, -9909, -9901, -9892, -9883, -9873, -9863, -9853, -9842, -9831, -9820,
    -9808, -9796, -9783, -9770, -9757, -9743, -9729, -9715, -9700, -9685, -9670, -9654, -9638, -9621, -9604, -9587,
    -9569, -9551, -9533, -9514, -9495, -9476, -9456, -9436, -9415, -9395, -9373, -9352, -9330, -9308, -9285, -9262,
    -9239, -9215, -9191, -9167, -9142, -9117, -9092, -9066, -9040, -9013, -8987, -8960, -8932, -8904, -8876, -8848,
    -8819, -8790, -8761, -8731, -8701, -8670, -8640, -8609, -8577, -8546, -8514, -8481, -8449, -8416, -8382, -8349,
    -8315, -8280, -8246, -8211, -8176, -8140, -8105, -8068, -8032, -7995, -7958, -7921, -7883, -7846, -7807, -7769,
    -7730, -7691, -7652, -7612, -7572, -7532, -7491, -7451, -7410, -7368, -7327, -7285, -7242, -7200, -7157, -7114,
    -7071, -7028, -6984, -6940, -6895, -6851, -6806, -6761, -6716, -6670, -6624, -6578, -6532, -6485, -6438, -6391,
    -6344, -6296, -6249, -6201, -6152, -6104, -6055, -6006, -5957, -5908, -5858, -5808, -5758, -5708, -5657, -5607,
    -5556, -5505, -5453, -5402, -5350, -5298, -5246, -5194, -5141, -5088, -5035, -4982, -4929, -4876, -4822, -4768,
    -4714, -4660, -4605, -4551, -4496, -4441, -4386, -4331, -4276, -4220, -4164, -4108, -4052, -3996, -3940, -3883,
    -3827, -3770, -3713, -3656, -3599, -3542, -3484, -3427, -3369, -3311, -3253, -3195, -3137, -3078, -3020, -2962,
    -2903, -2844, -2785, -2726, -2667, -2608, -2549, -2489, -2430, -2370, -2311, -2251, -2191, -2131, -2071, -2011,
    -1951, -1891, -1830, -1770, -1710, -1649, -1589, -1528, -1467, -1407, -1346, -1285, -1224, -1163, -1102, -1041,
    -980, -919, -858, -797, -736, -674, -613, -552, -491, -429, -368, -307, -245, -184, -123, -61,
    0, 61, 123, 184, 245, 307, 368, 429, 491, 552, 613, 674, 736, 797, 858, 919,
    980, 1041, 1102, 1163, 1224, 1285, 1346, 1407, 1467, 1528, 1589, 1649, 1710, 1770, 1830, 1891,
    1951, 2011, 2071, 2131, 2191, 2251, 2311, 2370, 2430, 2489, 2549, 2608, 2667, 2726, 2785, 2844,
    2903, 2962, 3020, 3078, 3137, 3195, 3253, 3311, 3369, 3427, 3484, 3542, 3599, 3656, 3713, 3770,
    3827, 3883, 3940, 3996, 4052, 4108, 4164, 4220, 4276, 4331, 4386, 4441, 4496, 4551, 4605, 4660,
    4714, 4768, 4822, 4876, 4929, 4982, 5035, 5088, 5141, 5194, 5246, 5298, 5350, 5402, 5453, 5505,
    5556, 5607, 5657, 5708, 5758, 5808, 5858, 5908, 5957, 6006, 6055, 6104, 6152, 6201, 6249, 6296,
    6344, 6391, 6438, 6485, 6532, 6578, 6624, 6670, 6716, 6761, 6806, 6851, 6895, 6940, 6984, 7028,
    7071, 7114, 7157, 7200, 7242, 7285, 7327, 7368, 7410, 7451, 7491, 7532, 7572, 7612, 7652, 7691,
    7730, 7769, 7807, 7846, 7883, 7921, 7958, 7995, 8032, 8068, 8105, 8140, 8176, 8211, 8246, 8280,
    8315, 8349, 8382, 8416, 8449, 8481, 8514, 8546, 8577, 8609, 8640, 8670, 8701, 8731, 8761, 8790,
    8819, 8848, 8876, 8904, 8932, 8960, 8987, 9013, 9040, 9066, 9092, 9117, 9142, 9167, 9191, 9215,
    9239, 9262, 9285, 9308, 9330, 9352, 9373, 9395, 9415, 9436, 9456, 9476, 9495, 9514, 9533, 9551,
    9569, 9587, 9604, 9621, 9638, 9654, 9670, 9685, 9700, 9715, 9729, 9743, 9757, 9770, 9783, 9796,
    9808, 9820, 9831, 9842, 9853, 9863, 9873, 9883, 9892, 9901, 9909, 9917, 9925, 9932, 9939, 9946,
    9952, 9958, 9963, 9968, 9973, 9977, 9981, 9985, 9988, 9991, 9993, 9995, 9997, 9998, 9999, 10000 >>

\* the table index of fastSin and fastCos; angle in 1/100 rad
\* (2 * M_PI is 6.2832 to the model's precision)
FastIndex(angle) ==
    LET index == CRem(TruncDiv(angle * ANGLE_TABLE_SIZE * 100, 62832), ANGLE_TABLE_SIZE)
    IN  IF index < 0 THEN index + ANGLE_TABLE_SIZE ELSE index

fastSin(angle) == sinTable[FastIndex(angle) + 1]

fastCos(angle) == cosTable[FastIndex(angle) + 1]

(***************************************************************************)
(* Player                                                                  *)
(***************************************************************************)
\* Player::Player
NewPlayer ==
    [ x |-> 5 * PosScale, y |-> 5 * PosScale,
      dirX |-> -VecScale, dirY |-> 0,
      planeX |-> 0, planeY |-> (66 * VecScale) \div 100,
      health |-> PlayerHealth ]

\* mutant of rotate: the y components are computed from the x already rotated
rotateNoOld(p, angle) ==
    LET cosAngle == fastCos(angle)
        sinAngle == fastSin(angle)
        dirX == RoundDiv(p.dirX * cosAngle - p.dirY * sinAngle, TrigScale)
        planeX == RoundDiv(p.planeX * cosAngle - p.planeY * sinAngle, TrigScale)
    IN  [ p EXCEPT
            !.dirX = dirX,
            !.dirY = RoundDiv(dirX * sinAngle + p.dirY * cosAngle, TrigScale),
            !.planeX = planeX,
            !.planeY = RoundDiv(planeX * sinAngle + p.planeY * cosAngle, TrigScale) ]

\* Player::rotate; angle in 1/100 rad
rotate(p, angle) ==
    LET cosAngle == fastCos(angle)
        sinAngle == fastSin(angle)
    IN  [ p EXCEPT
            !.dirX = RoundDiv(p.dirX * cosAngle - p.dirY * sinAngle, TrigScale),
            !.dirY = RoundDiv(p.dirX * sinAngle + p.dirY * cosAngle, TrigScale),
            !.planeX = RoundDiv(p.planeX * cosAngle - p.planeY * sinAngle, TrigScale),
            !.planeY = RoundDiv(p.planeX * sinAngle + p.planeY * cosAngle, TrigScale) ]

\* Game::movePlayer; forward and strafe in {-1, 0, 1}.  The result is the player
\* and whether a collision test indexed the grid outside its bounds.
movePlayer(m, forward, strafe, map, junk) ==
    LET p == m.p
        fx == IF forward # 0 THEN RoundDiv(p.dirX * forward * MoveSpeed, VecScale) ELSE 0
        fy == IF forward # 0 THEN RoundDiv(p.dirY * forward * MoveSpeed, VecScale) ELSE 0
        sx == IF strafe # 0 THEN RoundDiv(p.dirY * strafe * MoveSpeed, VecScale) ELSE 0
        sy == IF strafe # 0 THEN RoundDiv((-p.dirX) * strafe * MoveSpeed, VecScale) ELSE 0
        newX == p.x + fx + sx
        newY == p.y + fy + sy
        buf == IF forward > 0 THEN WallBuffer ELSE -WallBuffer
        cx1 == CellOf(newX + buf)
        cy1 == CellOf(p.y)
        x1 == IF MapRead(map, cx1, cy1, junk) = 0 THEN newX ELSE p.x
        cx2 == CellOf(x1)
        cy2 == CellOf(newY + buf)
        y1 == IF MapRead(map, cx2, cy2, junk) = 0 THEN newY ELSE p.y
    IN  [ p |-> [ p EXCEPT !.x = x1, !.y = y1 ],
          oob |-> m.oob \/ ~InGrid(cx1, cy1) \/ ~InGrid(cx2, cy2) ]

(***************************************************************************)
(* Enemy                                                                   *)
(***************************************************************************)
\* Enemy::Enemy
NewEnemy(x, y) == [ x |-> x, y |-> y, health |-> EnemyHealth, isDead |-> FALSE ]

\* the cells Enemy::update indexes for an enemy that moves
EnemyStep(e, p) ==
    LET moveDir == Normalize(p.x - e.x, p.y - e.y)
    IN  << e.x + RoundDiv(moveDir[1] * EnemySpeed, VecScale),
           e.y + RoundDiv(moveDir[2] * EnemySpeed, VecScale) >>

EnemyMoves(e, p) ==
    ~e.isDead /\ LengthSq(p.x - e.x, p.y - e.y) > ContactRadius * ContactRadius

\* Enemy::update
EnemyUpdate(e, p, map, junk) ==
    IF ~EnemyMoves(e, p) THEN e
    ELSE LET newPos == EnemyStep(e, p)
             x1 == IF MapRead(map, CellOf(newPos[1]), CellOf(e.y), junk) = 0
                   THEN newPos[1] ELSE e.x
             y1 == IF MapRead(map, CellOf(x1), CellOf(newPos[2]), junk) = 0
                   THEN newPos[2] ELSE e.y
         IN  [ e EXCEPT !.x = x1, !.y = y1 ]

\* whether Enemy::update indexes the grid outside its bounds
EnemyOob(e, p, map, junk) ==
    /\ EnemyMoves(e, p)
    /\ LET newPos == EnemyStep(e, p)
           x1 == EnemyUpdate(e, p, map, junk).x
       IN  \/ ~InGrid(CellOf(newPos[1]), CellOf(e.y))
           \/ ~InGrid(CellOf(x1), CellOf(newPos[2]))

(***************************************************************************)
(* Game::Game: world generation                                            *)
(***************************************************************************)
\* Game::Game: the border walls
BorderWall(x, y) == x = 0 \/ y = 0 \/ x = MAP_WIDTH - 1 \/ y = MAP_HEIGHT - 1

\* Game::Game: an interior wall is placed only away from the player spawn point
WallAllowed(x, y) ==
    /\ x \in 1..(MAP_WIDTH - 2)
    /\ y \in 1..(MAP_HEIGHT - 2)
    /\ (Abs(x * PosScale - NewPlayer.x) > 3 * PosScale
        \/ Abs(y * PosScale - NewPlayer.y) > 3 * PosScale)

\* Game::Game: an enemy is spawned only away from the player
SpawnAllowed(x, y) ==
    /\ x \in 2..(MAP_WIDTH - 3)
    /\ y \in 2..(MAP_HEIGHT - 3)
    /\ (Abs(x * PosScale - NewPlayer.x) > 5 * PosScale
        \/ Abs(y * PosScale - NewPlayer.y) > 5 * PosScale)

\* the interior walls one run of the generator placed
InteriorWalls == { w \in { << 9, 5 >>, << 10, 12 >>, << 14, 3 >> } : WallAllowed(w[1], w[2]) }

\* Game::Game: the grid after generation
GeneratedMap ==
    [ x \in 0..(MAP_WIDTH - 1) |->
        [ y \in 0..(MAP_HEIGHT - 1) |->
            IF BorderWall(x, y) \/ << x, y >> \in InteriorWalls THEN 1 ELSE 0 ] ]

\* Game::worldMap[MAP_WIDTH][MAP_HEIGHT], 1 = wall, 0 = empty: written by the
\* constructor only
worldMap == GeneratedMap

\* iterations of the wall loop and of the enemy loop of the constructor, per run
MaxGenWalls == 3
MaxGenSpawns == 2

\* the constructor has returned, the walls of worldMap placed
Generated == [ walls |-> InteriorWalls, i |-> MaxGenWalls, j |-> MaxGenSpawns ]

\* Game::Game: the grid with the border walls and the interior walls placed so far
MapWith(walls) ==
    [ x \in 0..(MAP_WIDTH - 1) |->
        [ y \in 0..(MAP_HEIGHT - 1) |->
            IF BorderWall(x, y) \/ << x, y >> \in walls THEN 1 ELSE 0 ] ]

\* what rand() % (MAP_WIDTH - 2) + 1 and rand() % (MAP_HEIGHT - 2) + 1 draw for a
\* wall: the spawn cell, a cell 3 cells from it, cells farther away
WallDraws == { << 5, 5 >>, << 8, 8 >>, << 9, 5 >>, << 10, 12 >>, << 11, 5 >>, << 14, 3 >> }

\* what rand() % (MAP_WIDTH - 4) + 2 and rand() % (MAP_HEIGHT - 4) + 2 draw for an
\* enemy: cells within 5 cells of the player and cells farther away
SpawnDraws == { << 7, 7 >>, << 10, 10 >>, << 11, 5 >>, << 5, 11 >>, << 14, 3 >> }

\* Game::Game: one iteration of the enemy loop with the draw (x, y)
SpawnEnemyAt(es, x, y) ==
    IF SpawnAllowed(x, y) THEN Append(es, NewEnemy(x * PosScale, y * PosScale)) ELSE es

\* Game::Game: one iteration of the wall loop
GenWall ==
    /\ gen.i < MaxGenWalls
    /\ \E d \in WallDraws :
          gen' = [ gen EXCEPT !.i = gen.i + 1,
                              !.walls = IF WallAllowed(d[1], d[2])
                                        THEN gen.walls \cup { d } ELSE gen.walls ]
    /\ UNCHANGED << player, enemies, gameOver, mouseCaptured, frameCount, oobRead,
                    shotFired, renderVars >>

\* Game::Game: one iteration of the enemy loop
GenEnemy ==
    /\ gen.i = MaxGenWalls
    /\ gen.j < MaxGenSpawns
    /\ \E d \in SpawnDraws :
          enemies' = SpawnEnemyAt(enemies, d[1], d[2])
    /\ gen' = [ gen EXCEPT !.j = gen.j + 1 ]
    /\ UNCHANGED << player, gameOver, mouseCaptured, frameCount, oobRead,
                    shotFired, renderVars >>

(***************************************************************************)
(* Game: the simulation tick                                               *)
(***************************************************************************)
\* shootWeapon: the dot product of the facing direction and the normalized vector
\* to the enemy, in 1/(VecScale * VecScale); enemyDist = 0 divides by zero (NaN)
DotToEnemy(p, e) ==
    LET tx == e.x - p.x
        ty == e.y - p.y
        enemyDist == Length(tx, ty)
        nx == RoundDiv(tx * VecScale * 10, enemyDist)
        ny == RoundDiv(ty * VecScale * 10, enemyDist)
    IN  p.dirX * nx + p.dirY * ny

\* shootWeapon: angle < 0.26f && enemyDist < 8.0f, where angle = acos(dotProduct);
\* acos is NaN, and the comparison false, for an argument above 1 or a NaN
InShootingArc(p, e) ==
    /\ LengthSq(e.x - p.x, e.y - p.y) > 0
    /\ DotToEnemy(p, e) > CosArc
    /\ DotToEnemy(p, e) <= VecScale * VecScale
    /\ LengthSq(e.x - p.x, e.y - p.y) < WeaponRange * WeaponRange

\* shootWeapon: the body of the if
HitEnemy(e) ==
    LET h == e.health - WeaponDamage
    IN  [ e EXCEPT !.health = h, !.isDead = IF h <= 0 THEN TRUE ELSE e.isDead ]

\* mutant of ShootFrom: no break after a hit, every enemy in the arc is hit
RECURSIVE ShootAllFrom(_, _, _)
ShootAllFrom(p, es, i) ==
    IF i > Len(es) THEN es
    ELSE IF es[i].isDead THEN ShootAllFrom(p, es, i + 1)
    ELSE IF InShootingArc(p, es[i])
         THEN ShootAllFrom(p, [ es EXCEPT ![i] = HitEnemy(es[i]) ], i + 1)
    ELSE ShootAllFrom(p, es, i + 1)

\* mutant of ShootFrom: dead enemies are not skipped
RECURSIVE ShootDeadFrom(_, _, _)
ShootDeadFrom(p, es, i) ==
    IF i > Len(es) THEN es
    ELSE IF InShootingArc(p, es[i]) THEN [ es EXCEPT ![i] = HitEnemy(es[i]) ]
    ELSE ShootDeadFrom(p, es, i + 1)

\* shootWeapon: the loop from enemy i on
RECURSIVE ShootFrom(_, _, _)
ShootFrom(p, es, i) ==
    IF i > Len(es) THEN es
    ELSE IF es[i].isDead THEN ShootFrom(p, es, i + 1)
    ELSE IF InShootingArc(p, es[i]) THEN [ es EXCEPT ![i] = HitEnemy(es[i]) ]
    ELSE ShootFrom(p, es, i + 1)

\* Game::shootWeapon
shootWeapon(p, es) == ShootFrom(p, es, 1)

\* update: the four key tests, in the order W, S, A, D
MoveKeys(p, keys, map, junk) ==
    LET m0 == [ p |-> p, oob |-> FALSE ]
        m1 == IF "W" \in keys THEN movePlayer(m0, 1, 0, map, junk) ELSE m0
        m2 == IF "S" \in keys THEN movePlayer(m1, -1, 0, map, junk) ELSE m1
        m3 == IF "A" \in keys THEN movePlayer(m2, 0, -1, map, junk) ELSE m2
    IN  IF "D" \in keys THEN movePlayer(m3, 0, 1, map, junk) ELSE m3

\* update: player.rotate(-dx * 0.01f) when the mouse is captured; dx in pixels
MouseLook(p, captured, dx) == IF captured THEN rotate(p, -dx) ELSE p

\* mutant of AiRuns: the enemies are processed on every tick
AiRunsEveryTick(count) == count % 1 = 0

\* update: enemy AI runs when ++frameCount is even
AiRuns(count) == count % 2 = 0

\* update: the enemy loop, every enemy updated against the player's new position
UpdateEnemies(es, p, map, junk) ==
    [ i \in 1..Len(es) |-> EnemyUpdate(es[i], p, map, junk) ]

\* update: the contact test of one enemy, after its own update
InContact(e, p) ==
    LengthSq(p.x - e.x, p.y - e.y) < ContactRadius * ContactRadius /\ ~e.isDead

\* mutant of ContactTotal: contact is debounced to one hit per tick
ContactOnce(es, p) ==
    IF \E i \in 1..Len(es) : InContact(es[i], p) THEN ContactDamage ELSE 0

\* update: the health taken by the enemy loop
ContactTotal(es, p) ==
    ContactDamage * Cardinality({ i \in 1..Len(es) : InContact(es[i], p) })

\* mutant of GameOverCheck: the test is health < 0
GameOverBelowZero(health, over) == IF health < 0 THEN TRUE ELSE over

\* update: if (player.health <= 0) gameOver = true
GameOverCheck(health, over) == IF health <= 0 THEN TRUE ELSE over

\* update, past the game-over test
Tick(keys, dx, fire, junk) ==
    LET moved == MoveKeys(player, keys, worldMap, junk)
        p1 == MouseLook(moved.p, mouseCaptured, dx)
        count == frameCount + 1
        es1 == IF AiRuns(count) THEN UpdateEnemies(enemies, p1, worldMap, junk) ELSE enemies
        p2 == IF AiRuns(count)
              THEN [ p1 EXCEPT !.health = p1.health - ContactTotal(es1, p1) ]
              ELSE p1
        es2 == IF fire /\ HasWeapon THEN shootWeapon(p2, es1) ELSE es1
        oob == \/ moved.oob
               \/ AiRuns(count) /\ \E i \in 1..Len(enemies) :
                                      EnemyOob(enemies[i], p1, worldMap, junk)
    IN  /\ frameCount < MaxFrames
        /\ player' = p2
        /\ enemies' = es2
        /\ frameCount' = count
        /\ gameOver' = GameOverCheck(p2.health, gameOver)
        /\ oobRead' = (oobRead \/ oob)
        /\ shotFired' = (fire /\ HasWeapon)
        /\ UNCHANGED << gen, mouseCaptured, renderVars >>

\* mutant of Update: no early return when the game is over
UpdateAlways(keys, dx, fire, junk) == rpc = "idle" /\ Tick(keys, dx, fire, junk)

\* Game::update, with the input it polls: the keys held, the mouse delta, the fire
\* button, and what an out-of-bounds grid read returns
Update(keys, dx, fire, junk) ==
    /\ rpc = "idle"
    /\ IF gameOver THEN UNCHANGED vars ELSE Tick(keys, dx, fire, junk)

\* WindowProc, WM_LBUTTONDOWN
LButtonDown ==
    /\ rpc = "idle"
    /\ ~mouseCaptured
    /\ mouseCaptured' = TRUE
    /\ UNCHANGED << gen, player, enemies, gameOver, frameCount, oobRead, shotFired,
                    renderVars >>

\* WindowProc, WM_RBUTTONDOWN
RButtonDown ==
    /\ rpc = "idle"
    /\ mouseCaptured' = FALSE
    /\ UNCHANGED << gen, player, enemies, gameOver, frameCount, oobRead, shotFired,
                    renderVars >>

(***************************************************************************)
(* Game::renderScene: the wall pass                                        *)
(***************************************************************************)
\* std::numeric_limits<float>::max(), in 1/DistScale
FLT_MAX == 2000000000
\* 1e30f, the per-step distance of a ray that never crosses a grid line of an axis
HugeDist == 1000000000
\* max(perpWallDist, 0.05f)
MinWallDist == 50
\* min(lineHeight, SCREEN_HEIGHT * 10)
MaxLineHeight == SCREEN_HEIGHT * 10

\* the screen columns whose pixels the model keeps: ProbeCount columns from ProbeFirst
ProbeFirst == 398
ProbeCount == 4
ProbeColumns == { c \in ProbeFirst..(ProbeFirst + ProbeCount - 1) : c < SCREEN_WIDTH }
Rows == 0..(SCREEN_HEIGHT - 1)
\* loop iterations of one DDA walk the model follows
MaxDdaSteps == 40

\* a float product frac * dist, frac in 1/PosScale, without overflow
MulFrac(frac, dist) == frac * (dist \div PosScale) + (frac * (dist % PosScale)) \div PosScale

\* rayDir of view column x, in 1/(VecScale * RAY_WIDTH):
\* direction + plane * cameraX with cameraX = 2.0f * x / RAY_WIDTH - 1.0f
RayDirX(p, x) == p.dirX * RAY_WIDTH + p.planeX * (2 * x - RAY_WIDTH)

RayDirY(p, x) == p.dirY * RAY_WIDTH + p.planeY * (2 * x - RAY_WIDTH)

\* deltaDist = (rayDir == 0) ? 1e30f : abs(1.0f / rayDir), in 1/DistScale
DeltaDist(rd) == IF rd = 0 THEN HugeDist ELSE (DistScale * VecScale * RAY_WIDTH) \div Abs(rd)

\* renderScene: the locals of the ray of view column x before its DDA loop; junk is
\* what the memory around worldMap holds where this ray indexes it out of bounds
RaySetup(p, x, junk) ==
    LET rdX == RayDirX(p, x)
        rdY == RayDirY(p, x)
        mapX == CellOf(p.x)
        mapY == CellOf(p.y)
        deltaDistX == DeltaDist(rdX)
        deltaDistY == DeltaDist(rdY)
    IN  [ rdX |-> rdX, rdY |-> rdY, mapX |-> mapX, mapY |-> mapY,
          deltaDistX |-> deltaDistX, deltaDistY |-> deltaDistY,
          stepX |-> IF rdX < 0 THEN -1 ELSE 1,
          stepY |-> IF rdY < 0 THEN -1 ELSE 1,
          sideDistX |-> IF rdX < 0 THEN MulFrac(p.x - mapX * PosScale, deltaDistX)
                        ELSE MulFrac((mapX + 1) * PosScale - p.x, deltaDistX),
          sideDistY |-> IF rdY < 0 THEN MulFrac(p.y - mapY * PosScale, deltaDistY)
                        ELSE MulFrac((mapY + 1) * PosScale - p.y, deltaDistY),
          hit |-> 0, side |-> 0, steps |-> 0, junk |-> junk ]

\* renderScene: the hit test of the DDA loop, worldMap[mapX][mapY] > 0 with no
\* bounds check
WallHit(map, mapX, mapY, junk) == MapRead(map, mapX, mapY, junk) > 0

\* renderScene: one iteration of while (hit == 0)
DdaIteration(r, map) ==
    LET stepped == IF r.sideDistX < r.sideDistY
                   THEN [ r EXCEPT !.sideDistX = r.sideDistX + r.deltaDistX,
                                   !.mapX = r.mapX + r.stepX, !.side = 0 ]
                   ELSE [ r EXCEPT !.sideDistY = r.sideDistY + r.deltaDistY,
                                   !.mapY = r.mapY + r.stepY, !.side = 1 ]
    IN  [ stepped EXCEPT !.hit = IF WallHit(map, stepped.mapX, stepped.mapY, r.junk) THEN 1 ELSE 0,
                         !.steps = r.steps + 1 ]

Max(a, b) == IF a > b THEN a ELSE b

Min(a, b) == IF a < b THEN a ELSE b

\* mutant of PerpWallDist: the last step is not taken back
PerpWallDistNoStepBack(r) ==
    Max(IF r.side = 0 THEN r.sideDistX ELSE r.sideDistY, MinWallDist)

\* renderScene: while (hit == 0), from the locals r to the locals the loop leaves
RECURSIVE DdaWalk(_, _)
DdaWalk(r, map) ==
    IF r.hit # 0 \/ r.steps >= MaxDdaSteps THEN r ELSE DdaWalk(DdaIteration(r, map), map)

\* renderScene: perpWallDist of a ray that hit, clamped
PerpWallDist(r) ==
    Max(IF r.side = 0 THEN r.sideDistX - r.deltaDistX ELSE r.sideDistY - r.deltaDistY,
        MinWallDist)

\* renderScene: lineHeight
LineHeight(perpWallDist) ==
    Min((SCREEN_HEIGHT * DistScale) \div perpWallDist, MaxLineHeight)

\* renderScene: drawStart and drawEnd
DrawStart(lineHeight) == Max(-(lineHeight \div 2) + SCREEN_HEIGHT \div 2, 0)

DrawEnd(lineHeight) ==
    LET drawEnd == lineHeight \div 2 + SCREEN_HEIGHT \div 2
    IN  IF drawEnd >= SCREEN_HEIGHT THEN SCREEN_HEIGHT - 1 ELSE drawEnd

\* mutant of ScreenColumn: only the first screen column of the view column is drawn
ScreenColumnFirstOnly(x, c) == c = (x * SCREEN_WIDTH) \div RAY_WIDTH

\* renderScene: screen column c is one of view column x,
\* for (screenX = x * RAY_SCALE; screenX < (x + 1) * RAY_SCALE; screenX++)
\* with RAY_SCALE = SCREEN_WIDTH / RAY_WIDTH and the break at SCREEN_WIDTH
ScreenColumn(x, c) ==
    /\ c >= (x * SCREEN_WIDTH) \div RAY_WIDTH
    /\ c * RAY_WIDTH < (x + 1) * SCREEN_WIDTH
    /\ c < SCREEN_WIDTH

\* renderScene: what the three row loops of one screen column write to row y; a
\* row none of them reaches keeps the value old
ColumnPixel(drawStart, drawEnd, y, old) ==
    IF y >= drawStart /\ y < drawEnd THEN << "wall", 0 >>
    ELSE IF y >= 0 /\ y < drawStart THEN << "ceiling", 0 >>
    ELSE IF y >= drawEnd + 1 /\ y < SCREEN_HEIGHT THEN << "floor", 0 >>
    ELSE old

(***************************************************************************)
(* Game::renderSprites                                                     *)
(***************************************************************************)
\* renderSprites: dist > 400.0f, on the squared distance
SpriteCull == 400 * PosScale * PosScale
\* renderSprites: transformY <= 0.1f
NearPlane == 100

SpriteDist(p, e) == LengthSq(e.x - p.x, e.y - p.y)

\* renderSprites: the enemies put on the draw list
SpriteIds(p, es) ==
    { i \in 1..Len(es) : ~(SpriteDist(p, es[i]) > SpriteCull \/ es[i].isDead) }

\* mutant of SpriteOrders: the comparator is a.first < b.first, nearest first
SpriteOrdersNearFirst(p, es) ==
    LET ids == SpriteIds(p, es)
        n == Cardinality(ids)
    IN  { o \in [ 1..n -> ids ] :
            /\ \A a, b \in 1..n : a # b => o[a] # o[b]
            /\ \A a, b \in 1..n : a < b => SpriteDist(p, es[o[a]]) <= SpriteDist(p, es[o[b]]) }

\* renderSprites: the draw list after std::sort with a.first > b.first; the order
\* of sprites at equal distance is any
SpriteOrders(p, es) ==
    LET ids == SpriteIds(p, es)
        n == Cardinality(ids)
    IN  { o \in [ 1..n -> ids ] :
            /\ \A a, b \in 1..n : a # b => o[a] # o[b]
            /\ \A a, b \in 1..n : a < b => SpriteDist(p, es[o[a]]) >= SpriteDist(p, es[o[b]]) }

\* renderSprites: the determinant of the camera matrix, in 1/(VecScale * VecScale)
CameraDet(p) == p.planeX * p.dirY - p.dirX * p.planeY

\* renderSprites: transformX and transformY, in 1/DistScale
TransformX(p, e) ==
    Quot((p.dirY * (e.x - p.x) - p.dirX * (e.y - p.y)) * 100, TruncDiv(CameraDet(p), 100))

TransformY(p, e) ==
    Quot(((-p.planeY) * (e.x - p.x) + p.planeX * (e.y - p.y)) * 100, TruncDiv(CameraDet(p), 100))

\* createTextures: the enemy texel at (texX, texY) has a non-zero alpha byte; the
\* blob is opaque below CELL_SIZE/3 and half transparent below CELL_SIZE/2
EnemyTexelDrawn(texX, texY) ==
    LengthSq(texX - CELL_SIZE \div 2, texY - CELL_SIZE \div 2)
        < (CELL_SIZE \div 2) * (CELL_SIZE \div 2)

\* renderSprites: the projection of one enemy; drawn is FALSE where the code skips
\* the sprite (behind the camera, off screen)
Sprite(p, e) ==
    LET transformX == TransformX(p, e)
        transformY == TransformY(p, e)
        visible == CameraDet(p) # 0 /\ TruncDiv(CameraDet(p), 100) # 0 /\ transformY > NearPlane
        spriteScreenX == IF visible
                         THEN TruncDiv((SCREEN_WIDTH \div 2) * (transformY + transformX), transformY)
                         ELSE 0
        size == IF visible THEN (SCREEN_HEIGHT * DistScale) \div transformY ELSE 0
        spriteHeight == Min(size, SCREEN_HEIGHT * 2)
        spriteWidth == Min(size, SCREEN_WIDTH * 2)
        startX == -(spriteWidth \div 2) + spriteScreenX
        endX == spriteWidth \div 2 + spriteScreenX
        endY == spriteHeight \div 2 + SCREEN_HEIGHT \div 2
        drawStartX == Max(startX, 0)
        drawEndX == IF endX >= SCREEN_WIDTH THEN SCREEN_WIDTH - 1 ELSE endX
    IN  [ transformY |-> transformY,
          spriteWidth |-> spriteWidth, spriteHeight |-> spriteHeight,
          startX |-> startX,
          drawStartX |-> drawStartX, drawEndX |-> drawEndX,
          drawStartY |-> Max(-(spriteHeight \div 2) + SCREEN_HEIGHT \div 2, 0),
          drawEndY |-> IF endY >= SCREEN_HEIGHT THEN SCREEN_HEIGHT - 1 ELSE endY,
          step |-> IF spriteHeight > SCREEN_HEIGHT \div 2 THEN 2 ELSE 1,
          drawn |-> visible /\ spriteWidth > 0 /\ ~(drawEndX < 0 \/ drawStartX >= SCREEN_WIDTH) ]

\* renderSprites: the pixel loop visits (x, y) and finds a texel to draw there
SpriteSample(s, zbuf, x, y) ==
    /\ x >= s.drawStartX /\ x < s.drawEndX /\ (x - s.drawStartX) % s.step = 0
    /\ x >= 0 /\ x < SCREEN_WIDTH
    /\ ~(s.transformY > zbuf[x])
    /\ y >= s.drawStartY /\ y < s.drawEndY /\ (y - s.drawStartY) % s.step = 0
    /\ y >= 0 /\ y < SCREEN_HEIGHT
    /\ EnemyTexelDrawn(((x - s.startX) * CELL_SIZE) \div s.spriteWidth,
                       ((y - s.drawStartY) * CELL_SIZE) \div s.spriteHeight)

\* renderSprites: the pixel loop writes a texel of the sprite to pixel (c, r): the
\* sample at (c, r) itself or, with step 2, the fill of the gap right of, below, or
\* right of and below the sample
SpriteWrites(s, zbuf, c, r) ==
    /\ s.drawn
    /\ \/ SpriteSample(s, zbuf, c, r)
       \/ s.step > 1 /\ c < s.drawEndX /\ c < SCREEN_WIDTH /\ SpriteSample(s, zbuf, c - 1, r)
       \/ s.step > 1 /\ r < s.drawEndY /\ r < SCREEN_HEIGHT /\ SpriteSample(s, zbuf, c, r - 1)
       \/ /\ s.step > 1 /\ c < s.drawEndX /\ r < s.drawEndY
          /\ c < SCREEN_WIDTH /\ r < SCREEN_HEIGHT
          /\ SpriteSample(s, zbuf, c - 1, r - 1)

\* renderSprites: the frame buffer after the sprites of the draw list from k on
RECURSIVE DrawSprites(_, _, _, _, _, _)
DrawSprites(buf, p, es, zbuf, order, k) ==
    IF k > Len(order) THEN buf
    ELSE LET s == Sprite(p, es[order[k]])
             drawnBuf == [ c \in DOMAIN buf |->
                             [ r \in Rows |->
                                 IF SpriteWrites(s, zbuf, c, r)
                                 THEN << "enemy", order[k] >>
                                 ELSE buf[c][r] ] ]
         IN  DrawSprites(IF s.drawn THEN drawnBuf ELSE buf, p, es, zbuf, order, k + 1)

(***************************************************************************)
(* Game::renderHUD                                                         *)
(***************************************************************************)
\* renderHUD: the health bar, 200 x 20 at (20, SCREEN_HEIGHT - 40)
InHealthBar(c, r) ==
    /\ c >= 20 /\ c < 20 + 200
    /\ r >= SCREEN_HEIGHT - 40 /\ r < SCREEN_HEIGHT - 40 + 20

\* renderHUD: the crosshair, when the player has a weapon
InCrosshair(c, r) ==
    /\ HasWeapon
    /\ \/ r = SCREEN_HEIGHT \div 2 /\ c >= SCREEN_WIDTH \div 2 - 10 /\ c <= SCREEN_WIDTH \div 2 + 10
       \/ c = SCREEN_WIDTH \div 2 /\ r >= SCREEN_HEIGHT \div 2 - 10 /\ r <= SCREEN_HEIGHT \div 2 + 10

\* renderHUD: the game-over banner
InBanner(over, c, r) ==
    /\ over
    /\ c >= (SCREEN_WIDTH - 9 * 20) \div 2 /\ c < (SCREEN_WIDTH - 9 * 20) \div 2 + 9 * 20
    /\ r >= SCREEN_HEIGHT \div 2 /\ r < SCREEN_HEIGHT \div 2 + 40

\* renderHUD: the frame buffer after the HUD
DrawHud(buf, over) ==
    [ c \in DOMAIN buf |->
        [ r \in Rows |->
            IF InHealthBar(c, r) \/ InCrosshair(c, r) \/ InBanner(over, c, r)
            THEN << "hud", 0 >> ELSE buf[c][r] ] ]

(***************************************************************************)
(* Game::render, one step at a time                                        *)
(***************************************************************************)
\* render is entered; renderScene clears the depth buffer.  A pixel holds the pass
\* that wrote it in this frame and, for a sprite texel, the enemy; what the last
\* frame left is "stale".
RenderBegin ==
    /\ rpc = "idle"
    /\ zBuffer' = [ x \in 0..(SCREEN_WIDTH - 1) |-> FLT_MAX ]
    /\ renderBuffer' = [ c \in ProbeColumns |-> [ r \in Rows |-> << "stale", 0 >> ] ]
    /\ rayX' = 0
    /\ ray' = << >>
    /\ rpc' = "ray"
    /\ UNCHANGED simVars

\* renderScene: the ray of the next view column is set up
RayBegin ==
    /\ rpc = "ray"
    /\ rayX < RAY_WIDTH
    /\ \E junk \in Junk : ray' = RaySetup(player, rayX, junk)
    /\ rpc' = "dda"
    /\ UNCHANGED << simVars, rayX, zBuffer, renderBuffer >>

\* renderScene: one iteration of the DDA loop
DdaStep ==
    /\ rpc = "dda"
    /\ ray.hit = 0
    /\ ray.steps < MaxDdaSteps
    /\ ray' = DdaIteration(ray, worldMap)
    /\ UNCHANGED << simVars, rpc, rayX, zBuffer, renderBuffer >>

\* renderScene: the DDA loop has ended; the wall slice, ceiling and floor of the
\* screen columns of this view column are drawn and their depth stored
FillColumns ==
    /\ rpc = "dda"
    /\ ray.hit # 0
    /\ LET perpWallDist == PerpWallDist(ray)
           lineHeight == LineHeight(perpWallDist)
       IN  /\ zBuffer' = [ x \in DOMAIN zBuffer |->
                             IF ScreenColumn(rayX, x) THEN perpWallDist ELSE zBuffer[x] ]
           /\ renderBuffer' =
                [ c \in DOMAIN renderBuffer |->
                    IF ScreenColumn(rayX, c)
                    THEN [ r \in Rows |->
                             ColumnPixel(DrawStart(lineHeight), DrawEnd(lineHeight), r,
                                         renderBuffer[c][r]) ]
                    ELSE renderBuffer[c] ]
    /\ rayX' = rayX + 1
    /\ rpc' = IF rayX + 1 < RAY_WIDTH THEN "ray" ELSE "sprites"
    /\ UNCHANGED << simVars, ray >>

\* renderScene calls renderSprites after the last view column
RenderSprites ==
    /\ rpc = "sprites"
    /\ \E order \in SpriteOrders(player, enemies) :
          renderBuffer' = DrawSprites(renderBuffer, player, enemies, zBuffer, order, 1)
    /\ rpc' = "hud"
    /\ UNCHANGED << simVars, rayX, ray, zBuffer >>

\* render calls renderHUD and presents the frame
RenderHUD ==
    /\ rpc = "hud"
    /\ renderBuffer' = DrawHud(renderBuffer, gameOver)
    /\ rpc' = "idle"
    /\ UNCHANGED << simVars, rayX, ray, zBuffer >>

(***************************************************************************)
(* The states the simulation starts from                                   *)
(***************************************************************************)
\* the player somewhere on the map, as walking and taking damage left it
PlayerAt(x, y, health) == [ NewPlayer EXCEPT !.x = x, !.y = y, !.health = health ]

\* an enemy somewhere on the map, as pursuit and hits left it
EnemyAt(x, y, health) == [ NewEnemy(x, y) EXCEPT !.health = health ]

\* States of the running game the checks start from.  The first is the state the
\* constructor leaves; the others are states play reaches from it on GeneratedMap
\* (the player walks in steps of MoveSpeed, an enemy closes in by EnemySpeed every
\* second tick and stops within ContactRadius, contact takes health every second
\* tick).
Scenarios ==
    { \* after construction: two enemies spawned
      [ p |-> NewPlayer, fc |-> 0,
        es |-> << NewEnemy(11 * PosScale, 5 * PosScale), NewEnemy(5 * PosScale, 11 * PosScale) >> ],
      \* the player has walked west to the border; the enemy spawned at (11,5) is
      \* held by the wall at (9,5)
      [ p |-> PlayerAt(110, 500, 100), fc |-> 0, es |-> << EnemyAt(1001, 500, 50) >> ],
      \* one enemy at distance 0.4, full health
      [ p |-> PlayerAt(500, 500, 100), fc |-> 1, es |-> << EnemyAt(540, 500, 50) >> ],
      \* one enemy in contact, last point of health
      [ p |-> PlayerAt(500, 500, 1), fc |-> 1, es |-> << EnemyAt(540, 500, 50) >> ],
      \* two enemies in contact, last point of health
      [ p |-> PlayerAt(500, 500, 1), fc |-> 1,
        es |-> << EnemyAt(540, 500, 50), EnemyAt(500, 540, 50) >> ],
      \* two enemies ahead, inside the shooting arc and range, the first nearly dead
      [ p |-> PlayerAt(500, 500, 100), fc |-> 1,
        es |-> << EnemyAt(400, 500, 10), EnemyAt(300, 500, 50) >> ] }

\* the input one update() polls
KeySets == { {}, { "W" }, { "S", "A" }, { "D" } }

MouseDeltas == { 0, 157 }

Init ==
    /\ \E s \in Scenarios :
          /\ player = s.p
          /\ enemies = s.es
          /\ frameCount = s.fc
    /\ gen = Generated
    /\ gameOver = FALSE
    /\ mouseCaptured = FALSE
    /\ oobRead = FALSE
    /\ shotFired = FALSE
    /\ rpc = "idle"
    /\ rayX = 0
    /\ ray = << >>
    /\ zBuffer = << >>
    /\ renderBuffer = << >>

Next ==
    \/ \E keys \in KeySets, dx \in MouseDeltas, fire \in BOOLEAN, junk \in Junk :
          Update(keys, dx, fire, junk)
    \/ LButtonDown
    \/ RButtonDown

Spec == Init /\ [][Next]_vars

\* States of the running game a frame is rendered in, reached as those of Scenarios.
RenderScenarios ==
    { \* after construction
      [ p |-> NewPlayer,
        es |-> << NewEnemy(11 * PosScale, 5 * PosScale), NewEnemy(5 * PosScale, 11 * PosScale) >> ],
      \* the player has walked west from the spawn point until movePlayer stopped it
      [ p |-> PlayerAt(90, 500, 100), es |-> << EnemyAt(1001, 500, 50) >> ],
      \* an enemy beside the wall at (10,12), the player two cells east of the wall
      [ p |-> PlayerAt(1200, 1200, 100), es |-> << EnemyAt(1050, 1190, 50) >> ],
      \* two enemies ahead, one behind the other, and a dead one
      [ p |-> PlayerAt(500, 500, 0),
        es |-> << EnemyAt(400, 500, 50), EnemyAt(300, 500, 50), EnemyAt(350, 500, 0) >> ] }

RenderInit ==
    /\ \E s \in RenderScenarios :
          /\ player = s.p
          /\ enemies = [ i \in 1..Len(s.es) |->
                          [ s.es[i] EXCEPT !.isDead = (s.es[i].health <= 0) ] ]
          /\ gameOver = (s.p.health <= 0)
    /\ gen = Generated
    /\ frameCount \in { 0 }
    /\ mouseCaptured = FALSE
    /\ oobRead = FALSE
    /\ shotFired = FALSE
    /\ rpc = "idle"
    /\ rayX = 0
    /\ ray = << >>
    /\ zBuffer = << >>
    /\ renderBuffer = << >>

RenderNext ==
    \/ RenderBegin
    \/ RayBegin
    \/ DdaStep
    \/ FillColumns
    \/ RenderSprites
    \/ RenderHUD

\* Game::render of one frame in a state of the running game
SpecRender == RenderInit /\ [][RenderNext]_vars

(***************************************************************************)
(* Mouse look: ticks that only turn the player                             *)
(***************************************************************************)
\* the mouse deltas one update() polls, in pixels: both signs, below one table
\* step, a quarter turn, a half turn and more than a full turn
TurnDeltas == { -700, -314, -157, -100, -50, -7, -1, 0, 1, 7, 33, 50, 100, 157, 200, 314 }

\* the player as constructed, the mouse captured, no enemy
TurnInit ==
    /\ gen = Generated
    /\ player = NewPlayer
    /\ enemies = << >>
    /\ gameOver = FALSE
    /\ frameCount = 0
    /\ mouseCaptured = TRUE
    /\ oobRead = FALSE
    /\ shotFired = FALSE
    /\ rpc = "idle"
    /\ rayX = 0
    /\ ray = << >>
    /\ zBuffer = << >>
    /\ renderBuffer = << >>

TurnNext == \E dx \in TurnDeltas : Update({}, dx, FALSE, 0)

\* Game::update with no key held, the mouse moved
SpecTurn == TurnInit /\ [][TurnNext]_vars

(***************************************************************************)
(* Game::Game: the constructor, one loop iteration at a time               *)
(***************************************************************************)
\* the members initialised, only the border walls written
GenInit ==
    /\ gen = [ walls |-> {}, i |-> 0, j |-> 0 ]
    /\ player = NewPlayer
    /\ enemies = << >>
    /\ gameOver = FALSE
    /\ frameCount = 0
    /\ mouseCaptured = FALSE
    /\ oobRead = FALSE
    /\ shotFired = FALSE
    /\ rpc = "idle"
    /\ rayX = 0
    /\ ray = << >>
    /\ zBuffer = << >>
    /\ renderBuffer = << >>

GenNext == GenWall \/ GenEnemy

\* Game::Game: world generation
SpecGen == GenInit /\ [][GenNext]_vars

(***************************************************************************)
(* The wall pass on a grid with solid borders and no interior obstacles    *)
(***************************************************************************)
\* the grid the constructor builds when no random wall is placed
BorderMap ==
    [ x \in 0..(MAP_WIDTH - 1) |->
        [ y \in 0..(MAP_HEIGHT - 1) |-> IF BorderWall(x, y) THEN 1 ELSE 0 ] ]

\* the player as constructed, no enemy
CastInit ==
    /\ gen = Generated
    /\ player = NewPlayer
    /\ enemies = << >>
    /\ gameOver = FALSE
    /\ frameCount = 0
    /\ mouseCaptured = FALSE
    /\ oobRead = FALSE
    /\ shotFired = FALSE
    /\ rpc = "idle"
    /\ rayX = 0
    /\ ray = << >>
    /\ zBuffer = << >>
    /\ renderBuffer = << >>

\* renderScene: one iteration of the DDA loop on the grid without obstacles
CastDdaStep ==
    /\ rpc = "dda"
    /\ ray.hit = 0
    /\ ray.steps < MaxDdaSteps
    /\ ray' = DdaIteration(ray, BorderMap)
    /\ UNCHANGED << simVars, rpc, rayX, zBuffer, renderBuffer >>

CastNext ==
    \/ RenderBegin
    \/ RayBegin
    \/ CastDdaStep
    \/ FillColumns

\* Game::renderScene, the wall pass of one frame on the grid without obstacles
SpecCast == CastInit /\ [][CastNext]_vars

(***************************************************************************)
(* Claims about the simulation tick, checked under Spec                    *)
(***************************************************************************)
EnemyIds == 1..Len(enemies)

\* the grid cell a position lies in is a wall cell
InWall(x, y) == InGrid(CellOf(x), CellOf(y)) /\ worldMap[CellOf(x)][CellOf(y)] # 0

\* a step of update() that was not skipped by game over
TickStep == frameCount' = frameCount + 1

\* C1: neither the player nor any enemy ever stands in a wall cell.
C1_NoEntityInWall ==
    /\ ~InWall(player.x, player.y)
    /\ \A i \in EnemyIds : ~InWall(enemies[i].x, enemies[i].y)

\* C3: once the game is over it stays over, and no step changes the player or an
\* enemy any more.
C3_GameOverFrozen ==
    [][gameOver => (gameOver' /\ player' = player /\ enemies' = enemies)]_vars

C3_Witness == gameOver /\ frameCount < MaxFrames

\* C4: the game is over exactly when the player's health is 0 or less.
C4_GameOverIffNoHealth == gameOver <=> (player.health <= 0)

C4_Witness == gameOver /\ player.health = 0

\* enemy i is alive when the shot is fired and inside the shooting arc and range
ShotCandidate(i) == ~enemies[i].isDead /\ InShootingArc(player', enemies'[i])

\* C5: a tick that fires changes the health of the first living enemy inside the
\* arc and range by exactly -10 and the health and dead flag of no other enemy;
\* with no such enemy it changes none.
C5_ShotHitsFirstOnly ==
    [][(TickStep /\ shotFired') =>
         \A i \in EnemyIds :
            IF ShotCandidate(i) /\ \A j \in 1..(i - 1) : ~ShotCandidate(j)
            THEN enemies'[i].health = enemies[i].health - WeaponDamage
            ELSE /\ enemies'[i].health = enemies[i].health
                 /\ enemies'[i].isDead = enemies[i].isDead]_vars

C5_Witness ==
    /\ shotFired
    /\ Len(enemies) = 2
    /\ InShootingArc(player, enemies[1])
    /\ InShootingArc(player, enemies[2])
    /\ enemies[1].health = 0
    /\ enemies[2].health = EnemyHealth

\* C8: the player's health is always in 0..100.
C8_HealthInRange == player.health \in 0..PlayerHealth

\* the living enemies within the contact radius of the player when the tick ends
Touching == { i \in EnemyIds :
                /\ ~enemies[i].isDead
                /\ LengthSq(player'.x - enemies'[i].x, player'.y - enemies'[i].y)
                     < ContactRadius * ContactRadius }

\* C9: a tick that runs the enemies takes one point of health for every living
\* enemy nearer than 0.5, and health changes in no other way.
C9_ContactDamage ==
    [][player'.health =
          IF TickStep /\ frameCount' % 2 = 0
          THEN player.health - Cardinality(Touching)
          ELSE player.health]_vars

C9_Witness ==
    /\ frameCount = 2
    /\ player.health = PlayerHealth - 1
    /\ Len(enemies) = 1
    /\ ~enemies[1].isDead
    /\ LengthSq(player.x - enemies[1].x, player.y - enemies[1].y) = 40 * 40

C11_NoOffGridRead == ~oobRead

\* a tick has run its collision tests with the player inside the border ring
C11_Witness == CellOf(player.x) = 0 /\ frameCount = MaxFrames /\ ~oobRead

\* C14: the enemies are processed on every second tick only: a step that moves an
\* enemy or takes health from the player is the 2nd, 4th, ... update() that ran.
C14_AiHalfRate ==
    [][((\E i \in EnemyIds : enemies'[i].x # enemies[i].x \/ enemies'[i].y # enemies[i].y)
          \/ player'.health # player.health)
         => (TickStep /\ frameCount' % 2 = 0)]_vars

\* the first enemy has made its first move, on the second tick
C14_Witness ==
    /\ frameCount = 2
    /\ Len(enemies) = 2
    /\ enemies[1].x = 11 * PosScale - EnemySpeed
    /\ enemies[1].y = 5 * PosScale

C6_SpriteBehindWallNotDrawn ==
    rpc = "hud" =>
        \A c \in ProbeColumns, r \in Rows, i \in EnemyIds :
            renderBuffer[c][r] = << "enemy", i >> =>
                ~(TransformY(player, enemies[i]) > zBuffer[c])

\* C7: when the wall pass has drawn the last view column, every pixel has been
\* written in this frame, as ceiling, wall or floor.
C7_EveryPixelWritten ==
    rpc = "sprites" =>
        \A c \in ProbeColumns, r \in Rows :
            renderBuffer[c][r][1] \in { "ceiling", "wall", "floor" }

\* the sprite of enemy i passes the depth test and the alpha test at pixel (c, r)
PassesAt(i, c, r) ==
    /\ i \in SpriteIds(player, enemies)
    /\ Sprite(player, enemies[i]).drawn
    /\ SpriteSample(Sprite(player, enemies[i]), zBuffer, c, r)

\* enemies i and j overlap at pixel (c, r), i the nearer and the nearest there
Overlap(i, j, c, r) ==
    /\ PassesAt(i, c, r)
    /\ PassesAt(j, c, r)
    /\ SpriteDist(player, enemies[i]) < SpriteDist(player, enemies[j])
    /\ \A k \in EnemyIds :
          SpriteWrites(Sprite(player, enemies[k]), zBuffer, c, r) /\ k \in SpriteIds(player, enemies)
              => SpriteDist(player, enemies[k]) >= SpriteDist(player, enemies[i])

\* C12: after the sprite pass, a pixel at which the sprites of two living in-range
\* enemies both pass the depth and alpha tests holds the texel of the nearer one.
C12_NearerSpriteOnTop ==
    rpc = "hud" =>
        \A c \in ProbeColumns, r \in Rows, i \in EnemyIds, j \in EnemyIds :
            Overlap(i, j, c, r) => renderBuffer[c][r] = << "enemy", i >>

C12_Witness ==
    /\ rpc = "hud"
    /\ \E c \in ProbeColumns, r \in Rows, i \in EnemyIds, j \in EnemyIds :
          Overlap(i, j, c, r) /\ renderBuffer[c][r] = << "enemy", i >>

(***************************************************************************)
(* Claims about the wall pass on the empty grid, checked under SpecCast    *)
(***************************************************************************)
\* the view column whose ray runs along the facing direction
CenterColumn == RAY_WIDTH \div 2

\* the distance from the player to the east face of the western border wall
WestWallDist == (player.x - PosScale) * (DistScale \div PosScale)

\* C13: from (5,5) facing (-1,0) on the grid without obstacles, the walk of the
\* centre view column steps along x only, ends in the western border cell x = 0,
\* and the distance it reports is the straight distance to that wall, 4 cells,
\* which is not below the clamp of 0.05.
C13_CenterRayHitsWestWall ==
    /\ (rpc = "dda" /\ rayX = CenterColumn) =>
          /\ ray.side = 0
          /\ ray.mapY = CellOf(player.y)
          /\ ray.mapX = CellOf(player.x) - ray.steps
          /\ ray.hit = 1 <=> ray.mapX = 0
          /\ ray.hit = 1 =>
                /\ PerpWallDist(ray) = ray.sideDistX - ray.deltaDistX
                /\ PerpWallDist(ray) = WestWallDist
                /\ PerpWallDist(ray) >= MinWallDist
    /\ (rpc \in { "ray", "dda", "sprites" } /\ rayX > CenterColumn) =>
          \A c \in 0..(SCREEN_WIDTH - 1) : ScreenColumn(CenterColumn, c) => zBuffer[c] = WestWallDist

C13_Witness ==
    /\ rpc = "ray"
    /\ rayX = CenterColumn + 1
    /\ ray.hit = 1
    /\ ray.mapX = 0
    /\ ray.steps = 5
    /\ zBuffer[(CenterColumn * SCREEN_WIDTH) \div RAY_WIDTH] = 4 * DistScale

(***************************************************************************)
(* Claims about rotation, checked under SpecTurn                           *)
(***************************************************************************)
\* a and b differ by no more than 1/100 of scale: the tolerance of the arithmetic
\* in 1/VecScale with sines and cosines in 1/TrigScale
Close(a, b, scale) == Abs(a - b) * 100 <= scale

Dot(ax, ay, bx, by) == ax * bx + ay * by

Cross(ax, ay, bx, by) == ax * by - ay * bx

\* C15: a call of rotate leaves the magnitude of the direction, the magnitude of
\* the plane and the angle between the two (their dot and cross products) as they
\* were, within tolerance, in every state a sequence of rotations reaches.
C15_RotatePreserves ==
    [][LET p == player
           q == player'
           dd == VecScale * VecScale
           pp == LengthSq(NewPlayer.planeX, NewPlayer.planeY)
           dp == VecScale * NewPlayer.planeY
       IN  /\ Close(LengthSq(q.dirX, q.dirY), LengthSq(p.dirX, p.dirY), dd)
           /\ Close(LengthSq(q.planeX, q.planeY), LengthSq(p.planeX, p.planeY), pp)
           /\ Close(Dot(q.dirX, q.dirY, q.planeX, q.planeY),
                    Dot(p.dirX, p.dirY, p.planeX, p.planeY), dp)
           /\ Close(Cross(q.dirX, q.dirY, q.planeX, q.planeY),
                    Cross(p.dirX, p.dirY, p.planeX, p.planeY), dp)]_vars

\* the player has been turned, by more than a quarter turn in all
C15_Witness ==
    /\ frameCount >= 2
    /\ player.dirX > 0
    /\ player.dirY # 0
    /\ Close(LengthSq(player.dirX, player.dirY), VecScale * VecScale, VecScale * VecScale)

(***************************************************************************)
(* Claims about the order of the passes, checked under SpecRender          *)
(***************************************************************************)
\* the view column whose ray covers screen column c
ViewColumnOf(c) == (c * RAY_WIDTH) \div SCREEN_WIDTH

\* the depth the wall pass computes for screen column c
WallDepth(c, junk) ==
    PerpWallDist(DdaWalk(RaySetup(player, ViewColumnOf(c), junk), worldMap))

\* C16: a frame starts with the reset of the depth buffer; the sprite pass starts
\* only when the wall pass has drawn the last view column, and every depth slot
\* then holds the clamped wall distance of its view column, none the reset value;
\* the HUD pass starts only when the sprite pass has returned, and the frame ends
\* only after the HUD pass.
C16_PassOrder ==
    /\ [](rpc = "sprites" =>
            \A c \in 0..(SCREEN_WIDTH - 1) :
                /\ zBuffer[c] # FLT_MAX
                /\ zBuffer[c] >= MinWallDist
                /\ \E junk \in Junk : zBuffer[c] = WallDepth(c, junk))
    /\ [][/\ (rpc = "idle" /\ rpc' # "idle") =>
                (rpc' = "ray" /\ rayX' = 0
                   /\ \A c \in 0..(SCREEN_WIDTH - 1) : zBuffer'[c] = FLT_MAX)
          /\ (rpc # "sprites" /\ rpc' = "sprites") =>
                (rpc = "dda" /\ ray.hit # 0 /\ rayX' = RAY_WIDTH)
          /\ (rpc # "hud" /\ rpc' = "hud") => rpc = "sprites"
          /\ (rpc # "idle" /\ rpc' = "idle") => rpc = "hud"]_vars

\* a frame of the game-over state has come to its HUD pass
C16_Witness ==
    /\ gameOver
    /\ rpc = "hud"
    /\ \A c \in 0..(SCREEN_WIDTH - 1) : zBuffer[c] < FLT_MAX

(***************************************************************************)
(* Claims about world generation, checked under SpecGen                    *)
(***************************************************************************)
\* position (x, y) lies in a wall cell of the grid generated so far
InGenWall(x, y) == MapWith(gen.walls)[CellOf(x)][CellOf(y)] # 0

\* C17: when the constructor has run its loops, the cell of every spawned enemy and
\* the spawn cell of the player are empty, whatever the random draws were.
C17_SpawnCellsPassable ==
    (gen.i = MaxGenWalls /\ gen.j = MaxGenSpawns) =>
        /\ ~InGenWall(player.x, player.y)
        /\ \A i \in EnemyIds : ~InGenWall(enemies[i].x, enemies[i].y)
====
